---------------------------- MODULE Spec2Model ----------------------------
(***************************************************************************)
(* Model of the Ultimarc device layer of QtPyUltimarc:                     *)
(*   ultimarc/devices/_device.py     USBDeviceHandle (control transfers,   *)
(*                                   chunked write, read, config schemas)  *)
(*   ultimarc/devices/usb_button.py  USBButtonDevice (set_color,           *)
(*                                   get_color, set_config)                *)
(* One behaviour is one call on an opened device handle.  The device and   *)
(* libusb are the environment: every control transfer either succeeds      *)
(* (ret >= 0) or fails (ret < 0), and a successful read transfers some     *)
(* number of bytes into the caller's buffer.                               *)
(***************************************************************************)
EXTENDS Integers, Sequences, FiniteSets, TLC

(***************************************************************************)
(* Python values.  The code is dynamically typed and several calls bind    *)
(* arguments of one type to parameters used as another, so every value     *)
(* carries its type: t is the type, n the number (int, str of digits,      *)
(* ctypes scalar), b the bytes (ctypes Structure).                         *)
(***************************************************************************)
PyInt(n) == [t |-> "int", n |-> n, b |-> <<>>]

PyStr(n) == [t |-> "str", n |-> n, b |-> <<>>]

CObj(n) == [t |-> "cobj", n |-> n, b |-> <<>>]

Struct(bytes) == [t |-> "struct", n |-> Len(bytes), b |-> bytes]

PyNone == [t |-> "None", n |-> 0, b |-> <<>>]

\* A dict: the document json.loads made of a file
PyDict(doc) == [t |-> "dict", n |-> 0, b |-> <<doc>>]

PyTrue == [t |-> "bool", n |-> 1, b |-> <<>>]

PyFalse == [t |-> "bool", n |-> 0, b |-> <<>>]

\* Python truthiness (`if ret:`, `if report_id`, `if not config`).
Truthy(v) == CASE v.t = "None" -> FALSE
               [] v.t \in {"int", "bool"} -> v.n # 0
               [] OTHER -> TRUE

RECURSIVE BitOr(_, _)
\* Python's a | b on non-negative ints.
BitOr(a, b) ==
    IF a = 0 THEN b
    ELSE IF b = 0 THEN a
    ELSE (IF a % 2 = 1 \/ b % 2 = 1 THEN 1 ELSE 0) + 2 * BitOr(a \div 2, b \div 2)

Min(a, b) == IF a <= b THEN a ELSE b

\* ceil(a / b) for b >= 1
Ceil(a, b) == (a + b - 1) \div b

(***************************************************************************)
(* Program constants.                                                      *)
(***************************************************************************)
REPORT_TYPE_OUT == 200

LIBUSB_ENDPOINT_IN == 128

LIBUSB_ENDPOINT_OUT == 0

LIBUSB_REQUEST_TYPE_CLASS == 32

LIBUSB_RECIPIENT_INTERFACE == 1

USBB_GET_COLOR == CObj(1)

USBB_SET_COLOR == CObj(9)

USBButtonWValue == CObj(512)

USBButtonWIndex == CObj(0)

\* ct.sizeof(USBButtonColorStruct): target, red, green, blue
ColorStructSize == 4

\* Mutant: for x in range(19)
RetryLimit_short == 20 - 1

\* for x in range(20)
RetryLimit == 20

\* payload = (ct.c_ubyte*5)(0)
PayloadSize == 5

\* memmove(..., msg_size if msg_size <= 4 else 4)
ChunkDataMax == 4

(***************************************************************************)
(* Bounds of the model and the input samples.                              *)
(***************************************************************************)
MaxDataSize == 6

MaxMsgSize == 5

\* The write loop never ends when msg_size = 0; the model stops it here.
MaxTransfers == MaxDataSize + 1

\* Memory outside a buffer (read when a pointer runs past its end).
StrayBytes == {0, 238}

\* Channel values a caller may hand to set_color.
ColorArgs == {PyInt(0 - 1), PyInt(0), PyInt(7), PyInt(255), PyInt(256), PyStr(7)}

\* What the device may answer to a colour read: target, red, green, blue.
DeviceReplies == {<<1, 5, 6, 7>>, <<1, 0, 0, 0>>, <<1, 255, 128, 0>>}

\* Report ids given to a direct write.
ReportIds == {0, 3}

\* The caller's payload bytes: byte i (1-based) of the data structure.
DataByte(i) == 16 + i

\* The libusb request types (bits 6-5) and recipients (bits 4-0) of a call
LIBUSB_REQUEST_TYPE_VENDOR == 64
LIBUSB_RECIPIENT_ENDPOINT == 2

\* The HID feature report type, as the high byte of wValue
REPORT_TYPE_FEATURE == 768

\* The <<request_type, recipient>> a caller gives to read or write: the
\* defaults, and one other value of each
RequestKinds ==
    {<<LIBUSB_REQUEST_TYPE_CLASS, LIBUSB_RECIPIENT_INTERFACE>>,
     <<LIBUSB_REQUEST_TYPE_VENDOR, LIBUSB_RECIPIENT_ENDPOINT>>}

\* The <<request_type, recipient, report_type>> a caller gives to write
WriteKinds ==
    {<<k[1], k[2], REPORT_TYPE_OUT>> : k \in RequestKinds}
        \union {<<LIBUSB_REQUEST_TYPE_CLASS, LIBUSB_RECIPIENT_INTERFACE, REPORT_TYPE_FEATURE>>}


(***************************************************************************)
(* Configuration files and schemas.  A file is either not JSON or a JSON   *)
(* object; an absent member and a member that is not a string are values   *)
(* of their own.  colorRGB is <<red, green, blue>>, or <<>> when absent.   *)
(***************************************************************************)
JAbsent == "<absent>"

JNonString == "<non-string>"

ConfigFile(json, rt, dc, rgb) == [json |-> json, rt |-> rt, dc |-> dc, rgb |-> rgb]

NotJsonFile == ConfigFile(FALSE, JAbsent, JAbsent, <<>>)

ResourceTypes == {JAbsent, JNonString, "usb-button-color", "mini-pac-pins"}

DeviceClasses == {JAbsent, "usb-button", "mini-pac"}

ColorDocs == {<<>>, <<10, 20, 30>>, <<0, 0, 255>>, <<300, 20, 30>>, <<10, 256, 0>>, <<10, 20, 0 - 1>>}

ConfigFiles ==
    {NotJsonFile} \cup
    {ConfigFile(TRUE, rt, dc, rgb) : rt \in ResourceTypes, dc \in DeviceClasses, rgb \in ColorDocs}

BaseSchemaFile == "base.schema"

ColorSchemaFile == "usb-button-color.schema"

\* Which schema files the search paths hold when the call is made.
SchemaDirs == {{BaseSchemaFile, ColorSchemaFile}, {BaseSchemaFile}, {}}

\* base.schema: string members resourceType and deviceClass are required.
BaseSchemaOK(f) ==
    /\ f.rt \notin {JAbsent, JNonString}
    /\ f.dc \notin {JAbsent, JNonString}

\* usb-button-color.schema: colorRGB with integers red, green, blue in 0..255.
ColorSchemaOK(f) ==
    /\ Len(f.rgb) = 3
    /\ \A i \in 1..3 : 0 <= f.rgb[i] /\ f.rgb[i] <= 255

(***************************************************************************)
(* State.                                                                  *)
(***************************************************************************)
VARIABLES
    pc,           \* "idle", "get_color", "write_enter", "write_loop", "done",
                  \* "struct", "run_loop", "with", "run_done"
    op,           \* the driver operation called: its name, "" before the call
    colors,       \* set_color's arguments <<red, green, blue>>
    config_file,  \* set_config's configuration file
    schemas,      \* the schema files the search paths hold
    wargs,        \* the arguments write was called with, as bound to its parameters
    payload,      \* write's 5-byte chunk buffer
    pos,          \* write's position in the caller's data
    data,         \* get_color's USBButtonColorStruct buffer
    x,            \* get_color's loop counter
    stray,        \* the byte found in memory outside a buffer
    transfers,    \* the control transfers handed to libusb, in order (the
                  \* last MaxTransfers of one call)
    logged,       \* the validation errors written to the log, in order
    result,       \* <<>> until the call returns, then the returned value(s)
    exc,          \* the exception the call raised, "none" if none
    rargs,        \* the arguments read was called with
    setarg,       \* the field of the record last assigned, and the value
    accepted,     \* the resource types validate_config_base was called with
    schema_arg,   \* the schema file a direct call of the validation asked for
    toolop,       \* the option USBButtonClass.run was started with, "" outside run
    set_color_arg, \* the tool: the value of --set-color, <<>> if not given
    devs,         \* run: the number of devices the filter returned
    idx,          \* run: the position in devices of the loop
    held,         \* run: the devices whose handle is open
    attempted,    \* run: the devices the driver operation was called on
    tool_log,     \* run: the messages it logged, in order
    run_ret       \* run: <<>> until run returns, then its exit code

\* The arguments of the calls made on a driver directly.
call_vars == <<rargs, setarg, accepted, schema_arg>>

\* The state of USBButtonClass.run.
tool_vars == <<toolop, set_color_arg, devs, idx, held, attempted, tool_log, run_ret>>

vars == <<pc, op, colors, config_file, schemas, wargs, payload, pos, data, x,
          stray, transfers, logged, result, exc, call_vars, tool_vars>>

\* write(b_request, report_id, w_index, msg_size=None, data=None, data_size=None,
\*       request_type=CLASS, recipient=INTERFACE, report_type=REPORT_TYPE_OUT)
WriteArgs(b_request, report_id, w_index, msg_size, dat, data_size) ==
    [b_request |-> b_request, report_id |-> report_id, w_index |-> w_index,
     msg_size |-> msg_size, data |-> dat, data_size |-> data_size,
     request_type |-> LIBUSB_REQUEST_TYPE_CLASS,
     recipient |-> LIBUSB_RECIPIENT_INTERFACE,
     report_type |-> REPORT_TYPE_OUT]

NoArgs == WriteArgs(PyNone, PyNone, PyNone, PyNone, PyNone, PyNone)

\* read(b_request, w_value, w_index, data=None, size=None,
\*      request_type=CLASS, recipient=INTERFACE)
ReadArgs(b_request, w_value, w_index, size, request_type, recipient) ==
    [b_request |-> b_request, w_value |-> w_value, w_index |-> w_index,
     size |-> size, request_type |-> request_type, recipient |-> recipient]

NoReadArgs == ReadArgs(0, 0, 0, 0, 0, 0)

NoField == [field |-> "", value |-> 0]

Init ==
    /\ pc = "idle"
    /\ op = ""
    /\ colors = <<>>
    /\ config_file = NotJsonFile
    /\ schemas = {}
    /\ wargs = NoArgs
    /\ payload = <<>>
    /\ pos = 0
    /\ data = <<>>
    /\ x = 0
    /\ stray = 0
    /\ transfers = <<>>
    /\ logged = <<>>
    /\ result = <<>>
    /\ exc = "none"
    /\ rargs = NoReadArgs
    /\ setarg = NoField
    /\ accepted = {}
    /\ schema_arg = ""
    /\ toolop = ""
    /\ set_color_arg = <<>>
    /\ devs = 0
    /\ idx = 0
    /\ held = {}
    /\ attempted = {}
    /\ tool_log = <<>>
    /\ run_ret = <<>>

(***************************************************************************)
(* USBDeviceHandle._make_control_transfer: one usb.control_transfer.       *)
(* start is where the pointer given to libusb points in the caller's       *)
(* buffer, size the length given, bytes the size bytes at that pointer     *)
(* (after the transfer, for a read), offset the position in the caller's   *)
(* data the chunk was taken from, ok whether ret >= 0.                     *)
(***************************************************************************)
make_control_transfer(request_type, b_request, w_value, w_index, start, bytes, size, offset, ok) ==
    [request_type |-> request_type, b_request |-> b_request, w_value |-> w_value,
     w_index |-> w_index, start |-> start, bytes |-> bytes, size |-> size,
     offset |-> offset, ok |-> ok]

\* Mutant: request_type = request_type | recipient, the direction left out
ReadRequestType_no_direction(request_type, recipient) == BitOr(request_type, recipient)

\* read: request_type = usb.LIBUSB_ENDPOINT_IN | request_type | recipient
ReadRequestType(request_type, recipient) ==
    BitOr(BitOr(LIBUSB_ENDPOINT_IN, request_type), recipient)

\* write: request_type = usb.LIBUSB_ENDPOINT_OUT | request_type | recipient
WriteRequestType(request_type, recipient) ==
    BitOr(BitOr(LIBUSB_ENDPOINT_OUT, request_type), recipient)

\* read: the length handed to _make_control_transfer for a buffer of size bytes
ReadLength(size) == size

\* The buffer after a read that transferred the first n bytes of reply into it.
Received(buf, reply, n) == [i \in 1..Len(buf) |-> IF i <= n THEN reply[i] ELSE buf[i]]

(***************************************************************************)
(* USBDeviceHandle.read                                                    *)
(***************************************************************************)
\* The sizes of the buffers a caller gives to read
ReadSizes == {1, ColorStructSize}

\* A caller invokes read with a zeroed buffer of size bytes: one transfer,
\* and what _make_control_transfer returns is returned.
read_call ==
    /\ pc = "idle"
    /\ \E k \in RequestKinds, size \in ReadSizes, ok \in BOOLEAN, reply \in DeviceReplies :
         \E n \in 0..size :
           LET zeroed == [i \in 1..size |-> 0]
               buf == IF ok THEN Received(zeroed, reply, Min(n, ReadLength(size))) ELSE zeroed
               t == make_control_transfer(ReadRequestType(k[1], k[2]),
                        USBB_GET_COLOR.n, USBButtonWValue.n, USBButtonWIndex.n,
                        0, buf, ReadLength(size), 0, ok)
           IN /\ rargs' = ReadArgs(USBB_GET_COLOR.n, USBButtonWValue.n, USBButtonWIndex.n,
                                   size, k[1], k[2])
              /\ transfers' = <<t>>
              /\ data' = buf
              /\ result' = <<IF ok THEN PyTrue ELSE PyFalse>>
    /\ pc' = "done"
    /\ op' = "read"
    /\ UNCHANGED <<colors, config_file, schemas, wargs, payload, pos, x, stray,
                   logged, exc, setarg, accepted, schema_arg, tool_vars>>

(***************************************************************************)
(* USBButtonDevice.get_color                                               *)
(***************************************************************************)
\* Mutant: return data.target, data.red, data.green
DecodeColor_shifted(buf) == <<PyInt(buf[1]), PyInt(buf[2]), PyInt(buf[3])>>

\* return data.red, data.green, data.blue
DecodeColor(buf) == <<PyInt(buf[2]), PyInt(buf[3]), PyInt(buf[4])>>

\* return None, None, None
AbsentColor == <<PyNone, PyNone, PyNone>>

\* data = USBButtonColorStruct()
get_color_begin ==
    /\ pc' = "get_color"
    /\ op' = "get_color"
    /\ data' = [i \in 1..ColorStructSize |-> 0]
    /\ x' = 0
    /\ UNCHANGED <<colors, config_file, schemas, wargs, payload, pos, stray,
                   transfers, logged, result, exc>>

\* A caller holding a handle invokes get_color.
get_color_call ==
    /\ pc = "idle"
    /\ get_color_begin
    /\ UNCHANGED <<call_vars, tool_vars>>

\* One pass of `for x in range(20)`: a read, and the return if it succeeded.
get_color_read ==
    /\ UNCHANGED <<call_vars, tool_vars>>
    /\ pc = "get_color"
    /\ x < RetryLimit
    /\ \E ok \in BOOLEAN, n \in 0..ColorStructSize, reply \in DeviceReplies :
         LET size == ReadLength(ColorStructSize)
             buf == IF ok THEN Received(data, reply, Min(n, size)) ELSE data
             t == make_control_transfer(
                      ReadRequestType(LIBUSB_REQUEST_TYPE_CLASS, LIBUSB_RECIPIENT_INTERFACE),
                      USBB_GET_COLOR.n, USBButtonWValue.n, USBButtonWIndex.n,
                      0, buf, size, 0, ok)
         IN /\ transfers' = Append(transfers, t)
            /\ data' = buf
            /\ IF ok
               THEN /\ result' = DecodeColor(buf)
                    /\ pc' = "done"
                    /\ x' = x
               ELSE /\ result' = result
                    /\ pc' = pc
                    /\ x' = x + 1
    /\ UNCHANGED <<op, colors, config_file, schemas, wargs, payload, pos, stray,
                   logged, exc>>

\* The loop ran out: return None, None, None
get_color_exhausted ==
    /\ UNCHANGED <<call_vars, tool_vars>>
    /\ pc = "get_color"
    /\ x >= RetryLimit
    /\ result' = AbsentColor
    /\ pc' = "done"
    /\ UNCHANGED <<op, colors, config_file, schemas, wargs, payload, pos, data, x,
                   stray, transfers, logged, exc>>

(***************************************************************************)
(* USBDeviceHandle.write                                                   *)
(***************************************************************************)
\* Mutant: payload_ptr = ct.byref(payload), whatever the report id
payload_ptr_always_first(report_id) == 0

\* payload_ptr = ct.byref(payload) if report_id else ct.byref(payload, 1):
\* the offset in the chunk buffer of the pointer given to the transfer
payload_ptr(report_id) == IF Truthy(report_id) THEN 0 ELSE 1

\* The number of data bytes memmove copies into the chunk buffer.
ChunkLen(msg_size) == IF msg_size <= ChunkDataMax THEN msg_size ELSE ChunkDataMax

\* Mutant: pos += the number of bytes copied
Advance_by_copied(p, msg_size) == p + ChunkLen(msg_size)

\* pos += msg_size
Advance(p, msg_size) == p + msg_size

\* Byte i (1-based) at ct.byref(data): the caller's structure, then whatever
\* memory follows it.
DataRead(dat, i) == IF i <= Len(dat.b) THEN dat.b[i] ELSE stray

\* ct.memmove(ct.addressof(payload)+1, ct.byref(data, pos), n)
memmove(buf, dat, at, n) ==
    [i \in 1..Len(buf) |-> IF 2 <= i /\ i <= 1 + n THEN DataRead(dat, at + i - 1) ELSE buf[i]]

\* The size bytes libusb reads at offset start of the chunk buffer, and past
\* its end when start + size exceeds it.
SentBytes(buf, start, size) ==
    [k \in 1..size |-> IF start + k <= Len(buf) THEN buf[start + k] ELSE stray]

\* A caller invokes write with arguments of the types its parameters are used as.
write_call ==
    /\ pc = "idle"
    /\ \E rid \in ReportIds, ms \in 0..MaxMsgSize, ds \in 0..MaxDataSize, sb \in StrayBytes,
          k \in WriteKinds :
         /\ wargs' = [WriteArgs(CObj(9), PyInt(rid), CObj(2), PyInt(ms),
                                Struct([i \in 1..ds |-> DataByte(i)]), PyInt(ds))
                         EXCEPT !.request_type = k[1], !.recipient = k[2],
                                !.report_type = k[3]]
         /\ stray' = sb
    /\ UNCHANGED <<call_vars, tool_vars>>
    /\ pc' = "write_enter"
    /\ op' = "write"
    /\ UNCHANGED <<colors, config_file, schemas, payload, pos, data, x,
                   transfers, logged, result, exc>>

\* The statements of write before its loop, and the first test of the loop:
\* `report_type | report_id` and `pos < data_size` raise TypeError unless
\* report_id and data_size are ints.
write_enter ==
    /\ UNCHANGED <<call_vars, tool_vars>>
    /\ pc = "write_enter"
    /\ IF wargs.report_id.t = "int" /\ wargs.data_size.t = "int"
       THEN /\ payload' = [i \in 1..PayloadSize |-> IF i = 1 THEN wargs.report_id.n % 256 ELSE 0]
            /\ pos' = 0
            /\ pc' = "write_loop"
            /\ exc' = exc
       ELSE /\ exc' = "TypeError"
            /\ pc' = "done"
            /\ UNCHANGED <<payload, pos>>
    /\ UNCHANGED <<op, colors, config_file, schemas, wargs, data, x, stray,
                   transfers, logged, result>>

\* The last MaxTransfers transfers of a log: what the model keeps of the
\* transfers of a call that issues more than that
Recent(log) == IF Len(log) > MaxTransfers THEN Tail(log) ELSE log

\* One pass of `while pos < data_size`: copy, transfer, advance.  The value
\* _make_control_transfer returns is not looked at.
write_chunk ==
    /\ UNCHANGED <<call_vars, tool_vars>>
    /\ pc = "write_loop"
    /\ pos < wargs.data_size.n
    /\ \E ok \in BOOLEAN :
         LET buf == memmove(payload, wargs.data, pos, ChunkLen(wargs.msg_size.n))
             start == payload_ptr(wargs.report_id)
             t == make_control_transfer(
                      WriteRequestType(wargs.request_type, wargs.recipient),
                      wargs.b_request.n,
                      BitOr(wargs.report_type, wargs.report_id.n),
                      wargs.w_index.n,
                      start, SentBytes(buf, start, PayloadSize), PayloadSize, pos, ok)
         IN /\ payload' = buf
            /\ transfers' = Recent(Append(transfers, t))
    /\ pos' = Advance(pos, wargs.msg_size.n)
    /\ UNCHANGED <<pc, op, colors, config_file, schemas, wargs, data, x, stray,
                   logged, result, exc>>

\* What write returns: it has no return statement.
write_result == PyNone

\* The loop ends and write falls off its end: it returns None, and so do
\* set_color and set_config, which return what write returns.
\* get_device_configuration goes on with `if ret: ret = self.read()`, a
\* call of read without its three required arguments (TypeError), and
\* returns nothing itself.
write_return ==
    /\ UNCHANGED <<call_vars, tool_vars>>
    /\ pc = "write_loop"
    /\ ~(pos < wargs.data_size.n)
    /\ IF op = "get_device_configuration" /\ Truthy(write_result)
       THEN /\ exc' = "TypeError"
            /\ result' = result
       ELSE /\ result' = <<IF op = "get_device_configuration" THEN PyNone ELSE write_result>>
            /\ exc' = exc
    /\ pc' = "done"
    /\ UNCHANGED <<op, colors, config_file, schemas, wargs, payload, pos, data, x,
                   stray, transfers, logged>>

(***************************************************************************)
(* USBButtonDevice.set_color                                               *)
(***************************************************************************)
\* Mutant: 0 <= color <= 256
ColorArgOK_off_by_one(color) == color.t = "int" /\ 0 <= color.n /\ color.n <= 256

\* not (not isinstance(color, int) or not 0 <= color <= 255)
ColorArgOK(color) == color.t = "int" /\ 0 <= color.n /\ color.n <= 255

\* USBButtonColorStruct(0x01, red, green, blue)
USBButtonColorStruct(red, green, blue) == Struct(<<1, red % 256, green % 256, blue % 256>>)

\* self.write(USBB_SET_COLOR, USBButtonWValue, USBButtonWIndex, data, ct.sizeof(data)):
\* the five positional arguments bind to b_request, report_id, w_index,
\* msg_size and data; data_size keeps its default None.
ColorWriteArgs(dat) ==
    WriteArgs(USBB_SET_COLOR, USBButtonWValue, USBButtonWIndex, dat, PyInt(dat.n), PyNone)

\* set_color(red, green, blue) up to its call of write
set_color_begin(red, green, blue) ==
    /\ colors' = <<red, green, blue>>
    /\ IF ColorArgOK(red) /\ ColorArgOK(green) /\ ColorArgOK(blue)
       THEN /\ wargs' = ColorWriteArgs(USBButtonColorStruct(red.n, green.n, blue.n))
            /\ pc' = "write_enter"
            /\ exc' = exc
       ELSE /\ exc' = "ValueError"
            /\ pc' = "done"
            /\ wargs' = wargs
    /\ op' = "set_color"
    /\ UNCHANGED <<config_file, schemas, payload, pos, data, x, stray,
                   transfers, logged, result>>

\* A caller holding a handle invokes set_color.
set_color ==
    /\ pc = "idle"
    /\ \E red \in ColorArgs, green \in ColorArgs, blue \in ColorArgs :
         set_color_begin(red, green, blue)
    /\ UNCHANGED <<call_vars, tool_vars>>

(***************************************************************************)
(* Configuration validation and USBButtonDevice.set_config                 *)
(***************************************************************************)
\* load_config_schema: schema_path ends as the last candidate path even when
\* no candidate exists, so `if not schema_path` never holds and the file is
\* opened: TRUE when the schema is loaded, FALSE when open() raises
\* FileNotFoundError.
load_config_schema(schema_file, found) == schema_file \in found

\* What a validation returns: ret is "config" (the document), "True",
\* "False", "None" or "raise"; log is what it wrote to the error log.
Outcome(ret, log) == [ret |-> ret, log |-> log]

validate_config_base(f, resource_types, found) ==
    IF ~load_config_schema(BaseSchemaFile, found) THEN Outcome("raise", <<>>)
    ELSE IF ~f.json THEN Outcome("None", <<"not valid JSON">>)
    ELSE IF ~BaseSchemaOK(f) THEN Outcome("None", <<"base schema">>)
    ELSE IF f.rt \notin resource_types THEN Outcome("None", <<"resource type">>)
    ELSE Outcome("config", <<>>)

validate_config(f, schema_file, found) ==
    IF ~load_config_schema(schema_file, found) THEN Outcome("raise", <<>>)
    ELSE IF ~ColorSchemaOK(f) THEN Outcome("False", <<"config schema">>)
    ELSE Outcome("True", <<>>)

\* resource_types = ['usb-button-color']
ButtonResourceTypes == {"usb-button-color"}

\* Mutant: the device class of the document is not looked at
DeviceClassOK_unchecked(f) == TRUE

\* config['deviceClass'] != 'usb-button' is false
DeviceClassOK(f) == f.dc = "usb-button"

\* set_config up to its call of write: "write" when every check passed,
\* else what it returns or raises.
set_config_checks(f, found) ==
    LET base == validate_config_base(f, ButtonResourceTypes, found)
        color == validate_config(f, ColorSchemaFile, found)
    IN IF base.ret = "raise" THEN base
       ELSE IF base.ret = "None" THEN Outcome("False", base.log)
       ELSE IF ~DeviceClassOK(f) THEN Outcome("False", <<"device class">>)
       ELSE IF f.rt = "usb-button-color"
            THEN IF color.ret = "raise" THEN color
                 ELSE IF color.ret = "False" THEN color
                 ELSE Outcome("write", <<>>)
       ELSE Outcome("False", <<>>)

\* set_config(config_file) up to its call of write, the schema files found
\* being those the search paths hold
set_config_begin(f, found) ==
    /\ LET r == set_config_checks(f, found)
       IN /\ config_file' = f
          /\ schemas' = found
          /\ logged' = r.log
          /\ CASE r.ret = "write" ->
                    /\ wargs' = ColorWriteArgs(USBButtonColorStruct(f.rgb[1], f.rgb[2], f.rgb[3]))
                    /\ pc' = "write_enter"
                    /\ UNCHANGED <<result, exc>>
               [] r.ret = "raise" ->
                    /\ exc' = "FileNotFoundError"
                    /\ pc' = "done"
                    /\ UNCHANGED <<wargs, result>>
               [] OTHER ->
                    /\ result' = <<PyFalse>>
                    /\ pc' = "done"
                    /\ UNCHANGED <<wargs, exc>>
    /\ op' = "set_config"
    /\ UNCHANGED <<colors, payload, pos, data, x, stray, transfers>>

\* A caller holding a handle invokes set_config.
set_config ==
    /\ pc = "idle"
    /\ \E f \in ConfigFiles, found \in SchemaDirs : set_config_begin(f, found)
    /\ UNCHANGED <<call_vars, tool_vars>>

\* The resource_types lists a caller gives to validate_config_base
AcceptedSets == {{}, {"usb-button-color"}, {"usb-button-color", "mini-pac-pins"}}

\* A caller invokes validate_config_base(config_file, resource_types).
validate_config_base_call ==
    /\ pc = "idle"
    /\ \E f \in ConfigFiles, found \in SchemaDirs, resource_types \in AcceptedSets :
         LET r == validate_config_base(f, resource_types, found)
         IN /\ config_file' = f
            /\ schemas' = found
            /\ accepted' = resource_types
            /\ schema_arg' = BaseSchemaFile
            /\ logged' = r.log
            /\ IF r.ret = "raise"
               THEN /\ exc' = "FileNotFoundError"
                    /\ result' = result
               ELSE /\ result' = <<IF r.ret = "config" THEN PyDict(f) ELSE PyNone>>
                    /\ exc' = exc
    /\ pc' = "done"
    /\ op' = "validate_config_base"
    /\ UNCHANGED <<colors, wargs, payload, pos, data, x, stray, transfers,
                   rargs, setarg, tool_vars>>

\* A caller invokes load_config_schema(schema_file): the schema is returned
\* when a search path holds the file, and open() raises when none does.
load_config_schema_call ==
    /\ pc = "idle"
    /\ \E sf \in {BaseSchemaFile, ColorSchemaFile}, found \in SchemaDirs :
         /\ schema_arg' = sf
         /\ schemas' = found
         /\ IF load_config_schema(sf, found)
            THEN /\ result' = <<PyDict(sf)>>
                 /\ exc' = exc
            ELSE /\ exc' = "FileNotFoundError"
                 /\ result' = result
    /\ pc' = "done"
    /\ op' = "load_config_schema"
    /\ UNCHANGED <<colors, config_file, wargs, payload, pos, data, x, stray,
                   transfers, logged, rargs, setarg, accepted, tool_vars>>

\* A caller invokes validate_config(config, schema_file) with a parsed
\* document.
validate_config_call ==
    /\ pc = "idle"
    /\ \E f \in ConfigFiles, found \in SchemaDirs :
         LET r == validate_config(f, ColorSchemaFile, found)
         IN /\ f.json
            /\ config_file' = f
            /\ schema_arg' = ColorSchemaFile
            /\ schemas' = found
            /\ logged' = r.log
            /\ IF r.ret = "raise"
               THEN /\ exc' = "FileNotFoundError"
                    /\ result' = result
               ELSE /\ result' = <<IF r.ret = "True" THEN PyTrue ELSE PyFalse>>
                    /\ exc' = exc
    /\ pc' = "done"
    /\ op' = "validate_config"
    /\ UNCHANGED <<colors, wargs, payload, pos, data, x, stray, transfers,
                   rargs, setarg, accepted, tool_vars>>

(***************************************************************************)
(* The ctypes structures of _device.py, as ctypes lays them out on a       *)
(* little-endian build: every field at the next offset that is a multiple  *)
(* of its alignment, the structure padded to a multiple of the largest     *)
(* alignment of its fields, bit fields allocated from bit 0 of their       *)
(* storage unit.                                                           *)
(***************************************************************************)
\* Mutant: ULTIMARC_MACRO_SIZE = 84
ULTIMARC_MACRO_SIZE_short == 85 - 1

ULTIMARC_MACRO_SIZE == 85

\* The number of c_ubyte fields of UltimarcByteStruct
ByteStructLen == 49

\* The bits of the storage unit of a c_int
CIntBits == 32

\* ctypes types: the bytes one value takes and the alignment it needs
c_ubyte == [size |-> 1, align |-> 1]
c_int == [size |-> CIntBits \div 8, align |-> CIntBits \div 8]
Array(type, n) == [size |-> n * type.size, align |-> type.align]

Field(name, type) == [name |-> name, type |-> type]
BitField(name, width) == [name |-> name, width |-> width]

AlignUp(n, a) == ((n + a - 1) \div a) * a

RECURSIVE OffsetOf(_, _)
\* The offset of field k of a structure
OffsetOf(fields, k) ==
    AlignUp(IF k = 1 THEN 0 ELSE OffsetOf(fields, k - 1) + fields[k - 1].type.size,
            fields[k].type.align)

RECURSIVE MaxAlign(_, _)
\* The largest alignment of the first k fields
MaxAlign(fields, k) ==
    IF k = 0 THEN 1
    ELSE LET rest == MaxAlign(fields, k - 1)
         IN IF fields[k].type.align > rest THEN fields[k].type.align ELSE rest

\* ct.Structure with these _fields_, as a type
Structure(fields) ==
    LET a == MaxAlign(fields, Len(fields))
    IN [size |-> AlignUp(OffsetOf(fields, Len(fields)) + fields[Len(fields)].type.size, a),
        align |-> a]

\* UltimarcConfigurationStruct._fields_: bit fields of c_int
UltimarcConfigurationStruct ==
    <<BitField("high_current_output", 1), BitField("accelerometer", 1),
      BitField("paclink", 1), BitField("debounce", 2),
      BitField("expand_interface", 1), BitField("blanks", 2)>>

RECURSIVE BitOffsetOf(_, _)
\* The first bit of bit field k in the storage unit
BitOffsetOf(bits, k) == IF k = 1 THEN 0 ELSE BitOffsetOf(bits, k - 1) + bits[k - 1].width

\* A structure of bit fields of c_int, as a type: as many c_int units as
\* the bits need
BitStructure(bits) ==
    LET total == BitOffsetOf(bits, Len(bits)) + bits[Len(bits)].width
    IN [size |-> Ceil(total, CIntBits) * c_int.size, align |-> c_int.align]

\* UltimarcByteStruct: a structure of the fields byte_1 .. byte_49, all
\* c_ubyte, which lie one after the other as the elements of an array do
UltimarcByteStruct == Array(c_ubyte, ByteStructLen)

\* UltimarcStruct._fields_
UltimarcStruct ==
    <<Field("header", c_ubyte), Field("led_packet", c_ubyte), Field("quadrature", c_ubyte),
      Field("configuration", BitStructure(UltimarcConfigurationStruct)),
      Field("codes", UltimarcByteStruct),
      Field("shifted_codes", UltimarcByteStruct),
      Field("analog_axis_calibration", UltimarcByteStruct),
      Field("axis_offset_1", c_ubyte), Field("axis_offset_2", c_ubyte),
      Field("axis_offset_3", c_ubyte), Field("axis_offset_4", c_ubyte),
      Field("axis_offset_5", c_ubyte), Field("axis_offset_6", c_ubyte),
      Field("axis_offset_7", c_ubyte), Field("axis_offset_8", c_ubyte),
      Field("axis_scale_1", c_ubyte), Field("axis_scale_2", c_ubyte),
      Field("axis_scale_3", c_ubyte), Field("axis_scale_4", c_ubyte),
      Field("axis_scale_5", c_ubyte), Field("axis_scale_6", c_ubyte),
      Field("axis_scale_7", c_ubyte), Field("axis_scale_8", c_ubyte),
      Field("macros", Array(c_ubyte, ULTIMARC_MACRO_SIZE))>>

\* ct.sizeof of a structure type
sizeof(fields) == Structure(fields).size

\* The position in _fields_ of the field of that name
IndexOf(fields, name) == CHOOSE k \in 1..Len(fields) : fields[k].name = name

\* ct.sizeof(UltimarcStruct), and the offsets of its header and
\* configuration fields
UltimarcStructSize == sizeof(UltimarcStruct)
HeaderOffset == OffsetOf(UltimarcStruct, IndexOf(UltimarcStruct, "header"))
ConfigurationOffset == OffsetOf(UltimarcStruct, IndexOf(UltimarcStruct, "configuration"))

\* buf with bytes stored at offset off
Poke(buf, off, bytes) ==
    SubSeq(buf, 1, off) \o bytes \o SubSeq(buf, off + Len(bytes) + 1, Len(buf))

\* The c_int stored little-endian in the four bytes of buf at offset off
UnitRead(buf, off) ==
    buf[off + 1] + 256 * buf[off + 2] + 65536 * buf[off + 3] + 16777216 * buf[off + 4]

\* buf with the c_int unit at offset off replaced by u
UnitWrite(buf, off, u) ==
    Poke(buf, off, <<u % 256, (u \div 256) % 256, (u \div 65536) % 256,
                     (u \div 16777216) % 256>>)

\* The unit u with the width bits from bit lo replaced by the low bits of v
SetBits(u, lo, width, v) ==
    u - ((u \div (2 ^ lo)) % (2 ^ width)) * (2 ^ lo) + (v % (2 ^ width)) * (2 ^ lo)

\* The values assigned to a field of the record
FieldValues == {0, 1, 2, 3}

\* The value assigned to the header byte (as in Request(0x59, ...))
HeaderValues == {0, 89}

\* data = UltimarcStruct(): a zeroed record
struct_new ==
    /\ pc = "idle"
    /\ pc' = "struct"
    /\ op' = "UltimarcStruct"
    /\ data' = [i \in 1..UltimarcStructSize |-> 0]
    /\ UNCHANGED <<colors, config_file, schemas, wargs, payload, pos, x, stray,
                   transfers, logged, result, exc, call_vars, tool_vars>>

\* data.configuration.<field> = v
struct_set_bits ==
    /\ pc = "struct"
    /\ \E k \in 1..Len(UltimarcConfigurationStruct), v \in FieldValues :
         LET f == UltimarcConfigurationStruct[k]
             u == SetBits(UnitRead(data, ConfigurationOffset),
                          BitOffsetOf(UltimarcConfigurationStruct, k), f.width, v)
         IN /\ data' = UnitWrite(data, ConfigurationOffset, u)
            /\ setarg' = [field |-> f.name, value |-> v]
    /\ UNCHANGED <<pc, op, colors, config_file, schemas, wargs, payload, pos, x, stray,
                   transfers, logged, result, exc, rargs, accepted, schema_arg,
                   tool_vars>>

\* data.header = v
struct_set_byte ==
    /\ pc = "struct"
    /\ \E v \in HeaderValues :
         /\ data' = Poke(data, HeaderOffset, <<v>>)
         /\ setarg' = [field |-> "header", value |-> v]
    /\ UNCHANGED <<pc, op, colors, config_file, schemas, wargs, payload, pos, x, stray,
                   transfers, logged, result, exc, rargs, accepted, schema_arg,
                   tool_vars>>

(***************************************************************************)
(* MiniPACDevice.get_device_configuration                                  *)
(***************************************************************************)
MINIPAC_SET == CObj(9)
MINIPAC_REPORTID == PyInt(3)
MINIPACWIndex == CObj(2)

\* Request(0x59, 0xdd, 0x0f, 0): four c_ubyte fields
Request == Struct(<<89, 221, 15, 0>>)

\* request = Request(...); data = UltimarcStruct();
\* ret = self.write(MINIPAC_SET, MINIPAC_REPORTID, MINIPACWIndex,
\*                  ct.sizeof(request), request, ct.sizeof(request))
get_device_configuration ==
    /\ pc = "idle"
    /\ pc' = "write_enter"
    /\ op' = "get_device_configuration"
    /\ data' = [i \in 1..UltimarcStructSize |-> 0]
    /\ wargs' = WriteArgs(MINIPAC_SET, MINIPAC_REPORTID, MINIPACWIndex,
                          PyInt(Request.n), Request, PyInt(Request.n))
    /\ UNCHANGED <<colors, config_file, schemas, payload, pos, x, stray,
                   transfers, logged, result, exc, call_vars, tool_vars>>

(***************************************************************************)
(* tools/usb_button.py: USBButtonClass.run.  `with dev as dev_h` opens the *)
(* handle of the device on entry and closes it when the block is left,     *)
(* by its end or by an exception.                                          *)
(***************************************************************************)
\* The most devices the filter returns
MaxDevices == 2

\* The option run finds set: the first of args.set_color, args.get_color,
\* args.set_random_color and args.set_config that is set, or none of them
ToolOps == {"set_color", "get_color", "set_random_color", "set_config", "no_option"}

\* The characters of a decimal digit string, and the number each stands for
Digits == {"0", "1", "2", "3", "4", "5", "6", "7", "8", "9"}
DigitValue(c) ==
    CASE c = "0" -> 0 [] c = "1" -> 1 [] c = "2" -> 2 [] c = "3" -> 3 [] c = "4" -> 4
      [] c = "5" -> 5 [] c = "6" -> 6 [] c = "7" -> 7 [] c = "8" -> 8 [] c = "9" -> 9

\* The str of digits chars, as a Python value
RECURSIVE DigitsNumber(_)
DigitsNumber(chars) ==
    IF chars = <<>> THEN 0
    ELSE 10 * DigitsNumber(SubSeq(chars, 1, Len(chars) - 1)) + DigitValue(chars[Len(chars)])
DigitStr(chars) == PyStr(DigitsNumber(chars))

\* The number of digits of s in a row from position i on
RECURSIVE DigitRun(_, _)
DigitRun(s, i) == IF i <= Len(s) /\ s[i] \in Digits THEN 1 + DigitRun(s, i + 1) ELSE 0

\* re.match("^([0-9]{1,3}),([0-9]{1,3}),([0-9]{1,3})+$", s): one to three
\* digits, a comma, one to three digits, a comma, then groups of one to
\* three digits, taken greedily and repeated to the end of the string or
\* to the newline that ends it.  The third group of the match is the last
\* repetition.
RGB_STRING_REGEX(s) ==
    LET n1 == DigitRun(s, 1)
        c1 == n1 + 1
        n2 == DigitRun(s, c1 + 1)
        c2 == c1 + n2 + 1
        n3 == DigitRun(s, c2 + 1)
        end == c2 + n3
        last == ((n3 - 1) % 3) + 1
    IN  IF /\ n1 \in 1..3 /\ c1 <= Len(s) /\ s[c1] = ","
           /\ n2 \in 1..3 /\ c2 <= Len(s) /\ s[c2] = ","
           /\ n3 >= 1
           /\ \/ end = Len(s)
              \/ end + 1 = Len(s) /\ s[Len(s)] = "\n"
        THEN [matched |-> TRUE,
              groups |-> <<SubSeq(s, 1, n1), SubSeq(s, c1 + 1, c1 + n2),
                           SubSeq(s, end - last + 1, end)>>]
        ELSE [matched |-> FALSE, groups |-> <<>>]

\* Values of --set-color, character by character: 1,2,3  0,0,0  255,128,0
\* 999,0,0  1,2,3456  1,2,3\n  1,2  1,2,x  1234,2,3
SetColorArgs ==
    { <<"1", ",", "2", ",", "3">>,
      <<"0", ",", "0", ",", "0">>,
      <<"2", "5", "5", ",", "1", "2", "8", ",", "0">>,
      <<"9", "9", "9", ",", "0", ",", "0">>,
      <<"1", ",", "2", ",", "3", "4", "5", "6">>,
      <<"1", ",", "2", ",", "3", "\n">>,
      <<"1", ",", "2">>,
      <<"1", ",", "2", ",", "x">>,
      <<"1", "2", "3", "4", ",", "2", ",", "3">> }

\* match.groups() of the match of --set-color arg: three strings
SetColorGroups(arg) ==
    LET groups == RGB_STRING_REGEX(arg).groups
    IN  <<DigitStr(groups[1]), DigitStr(groups[2]), DigitStr(groups[3])>>

\* random.randrange(255): an int of 0..254
RandomChannels == {PyInt(0), PyInt(254)}

\* Mutant: the handle is closed only when the block ends without an exception
with_exit_held_unless_raised(h, i, e) == IF e = "none" THEN h \ {i} ELSE h

\* The handles open once the `with` block of device i is left, e being the
\* exception that left it ("none" if none)
with_exit_held(h, i, e) == h \ {i}

\* The state of the driver call of one `with` block is gone with the call.
call_ended ==
    /\ op' = ""
    /\ colors' = <<>>
    /\ wargs' = NoArgs
    /\ payload' = <<>>
    /\ pos' = 0
    /\ data' = <<>>
    /\ x' = 0
    /\ transfers' = <<>>
    /\ logged' = <<>>
    /\ result' = <<>>

\* The tool's run(), given a --set-color that does not match: it logs the
\* error and returns -1, and no USBButtonClass is made.
run_invalid_color ==
    /\ pc = "idle"
    /\ \E a \in SetColorArgs :
         /\ ~RGB_STRING_REGEX(a).matched
         /\ set_color_arg' = a
    /\ toolop' = "set_color"
    /\ tool_log' = <<"Invalid RGB value found for --set-color argument.">>
    /\ run_ret' = <<0 - 1>>
    /\ pc' = "run_done"
    /\ UNCHANGED <<op, colors, config_file, schemas, wargs, payload, pos, data, x,
                   stray, transfers, logged, result, exc, call_vars,
                   devs, idx, held, attempted>>

\* USBButtonClass.run, which the tool's run() calls once --set-color, if
\* given, matched.  devices = [...]; if not devices: return -1.  With no
\* option set no branch is taken and run returns 0.
run_call ==
    /\ pc = "idle"
    /\ \E o \in ToolOps, n \in 0..MaxDevices, f \in ConfigFiles, found \in SchemaDirs,
          a \in SetColorArgs \union {<<>>} :
         /\ o # "set_config" => (f = NotJsonFile /\ found = {})
         /\ IF o = "set_color" THEN RGB_STRING_REGEX(a).matched ELSE a = <<>>
         /\ toolop' = o
         /\ set_color_arg' = a
         /\ devs' = n
         /\ config_file' = f
         /\ schemas' = found
         /\ IF n = 0
            THEN /\ tool_log' = <<"No USB button devices found, aborting">>
                 /\ run_ret' = <<0 - 1>>
                 /\ pc' = "run_done"
                 /\ idx' = idx
            ELSE IF o = "no_option"
            THEN /\ tool_log' = tool_log
                 /\ run_ret' = <<0>>
                 /\ pc' = "run_done"
                 /\ idx' = idx
            ELSE /\ tool_log' = tool_log
                 /\ run_ret' = run_ret
                 /\ pc' = "run_loop"
                 /\ idx' = 1
    /\ UNCHANGED <<op, colors, wargs, payload, pos, data, x, stray, transfers,
                   logged, result, exc, call_vars, held, attempted>>

\* for dev in devices: with dev as dev_h:
with_enter ==
    /\ pc = "run_loop"
    /\ idx <= devs
    /\ held' = held \union {idx}
    /\ pc' = "with"
    /\ UNCHANGED <<op, colors, config_file, schemas, wargs, payload, pos, data, x,
                   stray, transfers, logged, result, exc, call_vars,
                   toolop, set_color_arg, devs, idx, attempted, tool_log, run_ret>>

\* dev_h.set_color(match.groups()[0], match.groups()[1], match.groups()[2])
run_set_color ==
    /\ pc = "with"
    /\ toolop = "set_color"
    /\ LET groups == SetColorGroups(set_color_arg)
       IN  set_color_begin(groups[1], groups[2], groups[3])
    /\ attempted' = attempted \union {idx}
    /\ UNCHANGED <<call_vars, toolop, set_color_arg, devs, idx, held, tool_log, run_ret>>

\* red, green, blue = dev_h.get_color()
run_get_color ==
    /\ pc = "with"
    /\ toolop = "get_color"
    /\ get_color_begin
    /\ attempted' = attempted \union {idx}
    /\ UNCHANGED <<call_vars, toolop, set_color_arg, devs, idx, held, tool_log, run_ret>>

\* red = random.randrange(255); ...; dev_h.set_color(red, green, blue)
run_set_random_color ==
    /\ pc = "with"
    /\ toolop = "set_random_color"
    /\ \E red \in RandomChannels, green \in RandomChannels, blue \in RandomChannels :
         set_color_begin(red, green, blue)
    /\ attempted' = attempted \union {idx}
    /\ UNCHANGED <<call_vars, toolop, set_color_arg, devs, idx, held, tool_log, run_ret>>

\* dev_h.set_config(self.args.set_config)
run_set_config ==
    /\ pc = "with"
    /\ toolop = "set_config"
    /\ set_config_begin(config_file, schemas)
    /\ attempted' = attempted \union {idx}
    /\ UNCHANGED <<call_vars, toolop, set_color_arg, devs, idx, held, tool_log, run_ret>>

\* What run logs for device i once the driver call returned ret
ToolMessages(o, i, ret) ==
    CASE o = "get_color" ->
           IF Truthy(ret[1]) THEN <<[msg |-> "Color", dev |-> i, rgb |-> ret]>> ELSE <<>>
      [] o = "set_random_color" ->
           <<[msg |-> "randomly set button color to", dev |-> i, rgb |-> colors]>>
      [] o = "set_config" ->
           <<[msg |-> "configuration successfully applied to device.", dev |-> i, rgb |-> <<>>]>>
      [] OTHER -> <<>>

\* The driver call is over and the `with` block is left: by an exception,
\* which nothing in run catches and which ends run, or by its end, and the
\* loop goes on with the next device.
with_exit ==
    /\ pc = "done"
    /\ toolop # ""
    /\ held' = with_exit_held(held, idx, exc)
    /\ IF exc # "none"
       THEN /\ pc' = "run_done"
            /\ idx' = idx
            /\ tool_log' = tool_log
       ELSE /\ pc' = "run_loop"
            /\ idx' = idx + 1
            /\ tool_log' = tool_log \o ToolMessages(toolop, idx, result)
    /\ call_ended
    /\ UNCHANGED <<config_file, schemas, stray, exc, call_vars,
                   toolop, set_color_arg, devs, attempted, run_ret>>

\* The loop is over: return 0
run_return ==
    /\ pc = "run_loop"
    /\ idx > devs
    /\ run_ret' = <<0>>
    /\ pc' = "run_done"
    /\ UNCHANGED <<op, colors, config_file, schemas, wargs, payload, pos, data, x,
                   stray, transfers, logged, result, exc, call_vars,
                   toolop, set_color_arg, devs, idx, held, attempted, tool_log>>

Next ==
    \/ get_color_call
    \/ get_color_read
    \/ get_color_exhausted
    \/ set_color
    \/ set_config
    \/ write_call
    \/ write_enter
    \/ write_chunk
    \/ write_return
    \/ read_call
    \/ struct_new
    \/ struct_set_bits
    \/ struct_set_byte
    \/ get_device_configuration
    \/ validate_config_base_call
    \/ load_config_schema_call
    \/ validate_config_call
    \/ run_invalid_color
    \/ run_call
    \/ with_enter
    \/ run_set_color
    \/ run_get_color
    \/ run_set_random_color
    \/ run_set_config
    \/ with_exit
    \/ run_return

Spec == Init /\ [][Next]_vars

\* A call of write on its own, the interpreter going on with the next
\* statement of write for as long as there is one.
WriteNext ==
    \/ write_call
    \/ write_enter
    \/ write_chunk
    \/ write_return

FairSpec ==
    /\ Init
    /\ [][WriteNext]_vars
    /\ WF_vars(write_enter)
    /\ WF_vars(write_chunk)
    /\ WF_vars(write_return)


(***************************************************************************)
(* Properties.                                                             *)
(***************************************************************************)
Last(seq) == seq[Len(seq)]

AllOk == \A i \in 1..Len(transfers) : transfers[i].ok

BadChannel(c) == c.t # "int" \/ c.n < 0 \/ c.n > 255

\* C3: set_color with a channel that is not an integer or lies outside
\* 0..255 raises ValueError (invalid argument), returns nothing and hands no
\* control transfer to the device.
C3_InvalidColorRejected ==
    (op = "set_color" /\ \E i \in 1..3 : BadChannel(colors[i])) =>
        /\ pc = "done"
        /\ exc = "ValueError"
        /\ result = <<>>
        /\ transfers = <<>>

\* C3 witness: set_color(7, 256, 0) was refused.
C3_Witness ==
    /\ op = "set_color"
    /\ colors = <<PyInt(7), PyInt(256), PyInt(0)>>
    /\ exc = "ValueError"

\* Some four consecutive bytes of the transfer are 01 r g b.
CarriesColor(t, r, g, b) ==
    \E k \in 1..(Len(t.bytes) - 3) : SubSeq(t.bytes, k, k + 3) = <<1, r, g, b>>

\* C4: set_color(r, g, b) with r, g, b in 0..255 issues exactly one write
\* whose colour payload is the four bytes 01 r g b.
C4_OneWriteWithColorPayload ==
    (op = "set_color" /\ pc = "done" /\ \A i \in 1..3 : ~BadChannel(colors[i])) =>
        /\ Len(transfers) = 1
        /\ CarriesColor(transfers[1], colors[1].n, colors[2].n, colors[3].n)

\* The configuration document is one the claims call valid for the USB button.
ValidButtonConfig(f) ==
    /\ f.json
    /\ f.rt = "usb-button-color"
    /\ f.dc = "usb-button"
    /\ Len(f.rgb) = 3
    /\ \A i \in 1..3 : f.rgb[i] \in 0..255

AllSchemasFound == schemas = {BaseSchemaFile, ColorSchemaFile}

\* C5: set_color with valid arguments and set_config with a valid
\* configuration return True when the control transfer succeeds and False
\* when it fails, and raise nothing.
C5_TransferResultReturned ==
    ( /\ pc = "done"
      /\ \/ op = "set_color" /\ \A i \in 1..3 : ~BadChannel(colors[i])
         \/ op = "set_config" /\ ValidButtonConfig(config_file) /\ AllSchemasFound ) =>
        /\ exc = "none"
        /\ transfers # <<>>
        /\ result = IF AllOk THEN <<PyTrue>> ELSE <<PyFalse>>

\* C6: set_config with a valid usb-button-color document whose colorRGB is
\* {red: r, green: g, blue: b} issues exactly one write with payload 01 r g b.
C6_ConfigWritesColorPayload ==
    (op = "set_config" /\ pc = "done" /\ ValidButtonConfig(config_file) /\ AllSchemasFound) =>
        /\ Len(transfers) = 1
        /\ CarriesColor(transfers[1], config_file.rgb[1], config_file.rgb[2], config_file.rgb[3])

C8_AbortOnFirstFailure ==
    (op = "write" /\ wargs.msg_size.n >= 1 /\ wargs.data_size.n > wargs.msg_size.n) =>
        /\ \A i \in 1..(Len(transfers) - 1) : transfers[i].ok
        /\ (pc = "done" /\ ~AllOk) => result = <<PyFalse>>

\* The setup packet fields of two transfers are the same.
SameSetup(t, u) ==
    /\ t.request_type = u.request_type
    /\ t.b_request = u.b_request
    /\ t.w_value = u.w_value
    /\ t.w_index = u.w_index

\* A write of more than 4 bytes, with a message size of at least 1, returned
\* with every transfer successful.
LongWriteDone ==
    /\ op = "write"
    /\ pc = "done"
    /\ wargs.data_size.n > 4
    /\ wargs.msg_size.n >= 1
    /\ AllOk

C10_ReportIdPrefix ==
    op = "write" =>
        \A i \in 1..Len(transfers) :
            LET t == transfers[i]
                n == Min(wargs.msg_size.n, 4)
                lead == IF wargs.report_id.n # 0 THEN 1 ELSE 0
            IN /\ t.start = 1 - lead
               /\ lead = 1 => t.bytes[1] = wargs.report_id.n
               /\ \A j \in 1..n :
                      t.offset + j <= wargs.data_size.n =>
                          t.bytes[lead + j] = DataByte(t.offset + j)

\* C10 witness: a chunk of a write with report id zero went out starting
\* with its first data byte.
C10_Witness ==
    /\ op = "write"
    /\ wargs.report_id.n = 0
    /\ wargs.msg_size.n = 4
    /\ Len(transfers) = 2
    /\ transfers[2].start = 1
    /\ transfers[2].bytes[1] = DataByte(5)

\* The direction bit (bit 7), the type class (bits 6-5) and the recipient
\* (bits 4-0) of a request-type byte
DirectionBit(b) == (b \div 128) % 2
TypeBits(b) == (b \div 32) % 4
RecipientBits(b) == b % 32

\* The operations that issue their transfers through read, and through write
ReadOps == {"read", "get_color"}
WriteOps == {"write", "set_color", "set_config", "get_device_configuration"}

\* The request type and the recipient the caller of read or write gave
CallerRequestType ==
    IF op = "read" THEN rargs.request_type
    ELSE IF op = "get_color" THEN LIBUSB_REQUEST_TYPE_CLASS
    ELSE wargs.request_type
CallerRecipient ==
    IF op = "read" THEN rargs.recipient
    ELSE IF op = "get_color" THEN LIBUSB_RECIPIENT_INTERFACE
    ELSE wargs.recipient

\* C11: the request-type byte of every transfer is one byte made of the
\* direction, the caller's type class and the caller's recipient: bit 7 is
\* set on every transfer read issues and clear on every transfer write
\* issues, bits 6-5 are the caller's request type, bits 4-0 the caller's
\* recipient, and nothing else is in the byte.
C11_RequestTypeByte ==
    \A i \in 1..Len(transfers) :
        LET b == transfers[i].request_type
        IN /\ b \in 0..255
           /\ op \in ReadOps => DirectionBit(b) = 1
           /\ op \in WriteOps => DirectionBit(b) = 0
           /\ TypeBits(b) * 32 = CallerRequestType
           /\ RecipientBits(b) = CallerRecipient

\* C11 witness: a vendor read from an endpoint went out with request type
\* 0xC2 (direction 1, type 2, recipient 2).
C11_Witness ==
    /\ op = "read"
    /\ rargs.request_type = LIBUSB_REQUEST_TYPE_VENDOR
    /\ rargs.recipient = LIBUSB_RECIPIENT_ENDPOINT
    /\ transfers # <<>>
    /\ transfers[1].request_type = 194

\* C12: on every transfer of a write, wValue is a 16-bit value whose low
\* byte is the report id and whose high byte is the report type, the report
\* type (the default REPORT_TYPE_OUT included) occupying the high byte only.
C12_WValueBytes ==
    op = "write" =>
        \A i \in 1..Len(transfers) :
            LET w == transfers[i].w_value
            IN /\ w \in 0..65535
               /\ w % 256 = wargs.report_id.n
               /\ (w \div 256) * 256 = wargs.report_type

\* C13: every transfer of the button carries its wire constants, b_request
\* 0x01 on a get_color read and 0x09 on a set_color or set_config write,
\* wValue 0x0200 and wIndex 0 on both; a set_color given valid channels
\* does issue such a transfer.
C13_ButtonWireConstants ==
    /\ op \in {"get_color", "set_color", "set_config"} =>
           \A i \in 1..Len(transfers) :
               /\ transfers[i].b_request = (IF op = "get_color" THEN 1 ELSE 9)
               /\ transfers[i].w_value = 512
               /\ transfers[i].w_index = 0
    /\ (op = "set_color" /\ pc = "done" /\ \A i \in 1..3 : ~BadChannel(colors[i])) =>
           transfers # <<>>

\* The size of the buffer the caller of a read gave
ReadBufferSize == IF op = "read" THEN rargs.size ELSE ColorStructSize

\* C14: every transfer a read issues is given the length n + 8, n being the
\* size of the caller's buffer.
C14_ReadHeadroom ==
    op \in ReadOps =>
        \A i \in 1..Len(transfers) : transfers[i].size = ReadBufferSize + 8

\* The positions in transfers of the reads and of the writes
ReadTransfers == {i \in 1..Len(transfers) : DirectionBit(transfers[i].request_type) = 1}
WriteTransfers == {i \in 1..Len(transfers) : DirectionBit(transfers[i].request_type) = 0}

\* C15: get_device_configuration writes its query packet and reads after
\* it if and only if the write succeeded: no read comes before the write,
\* none after a failed write, and after a successful write there is exactly
\* one read, into a buffer of the size of a whole UltimarcStruct.
C15_ReadFollowsWrite ==
    (op = "get_device_configuration" /\ pc = "done") =>
        /\ WriteTransfers # {}
        /\ \A r \in ReadTransfers, w \in WriteTransfers : w < r
        /\ IF \A w \in WriteTransfers : transfers[w].ok
           THEN /\ Cardinality(ReadTransfers) = 1
                /\ \A r \in ReadTransfers : transfers[r].size = Len(data)
           ELSE ReadTransfers = {}

\* The fields of the record in the order the specification lists them
ListedFields ==
    <<"header", "led_packet", "quadrature", "configuration",
      "codes", "shifted_codes", "analog_axis_calibration",
      "axis_offset_1", "axis_offset_2", "axis_offset_3", "axis_offset_4",
      "axis_offset_5", "axis_offset_6", "axis_offset_7", "axis_offset_8",
      "axis_scale_1", "axis_scale_2", "axis_scale_3", "axis_scale_4",
      "axis_scale_5", "axis_scale_6", "axis_scale_7", "axis_scale_8",
      "macros">>

\* The size the specification gives a listed field, 0 where it gives none
ListedSize(name) ==
    CASE name \in {"codes", "shifted_codes", "analog_axis_calibration"} -> 49
      [] name = "macros" -> 85
      [] name = "configuration" -> 0
      [] OTHER -> 1

\* The fields of the record are the listed ones, of the listed sizes, each
\* ending before the next begins and the last within the record.
FieldsAsListed ==
    /\ Len(UltimarcStruct) = Len(ListedFields)
    /\ \A k \in 1..Len(ListedFields) :
          LET f == UltimarcStruct[k]
              next == IF k = Len(ListedFields) THEN UltimarcStructSize
                      ELSE OffsetOf(UltimarcStruct, k + 1)
          IN /\ f.name = ListedFields[k]
             /\ ListedSize(f.name) # 0 => f.type.size = ListedSize(f.name)
             /\ f.type.size >= 1
             /\ OffsetOf(UltimarcStruct, k) + f.type.size <= next

\* C16: whatever values its fields were given, an UltimarcStruct is encoded
\* in exactly 256 bytes, and its fields lie in it in the listed order without
\* overlap: header, LED packet, quadrature, configuration bit field, three
\* tables of 49 bytes, 8 axis-offset bytes, 8 axis-scale bytes and a macro
\* buffer of 85 bytes.
C16_RecordLayout ==
    op \in {"UltimarcStruct", "get_device_configuration"} =>
        /\ Len(data) = 256
        /\ FieldsAsListed

\* C16 witness: a record whose header was set to 0x59 after debounce was set
\* to 3 is 256 bytes long, with 0x59 in its first byte.
C16_Witness ==
    /\ op = "UltimarcStruct"
    /\ setarg = [field |-> "header", value |-> 89]
    /\ Len(data) = 256
    /\ data[1] = 89
    /\ data[5] = 24

\* The first bit and the width the specification gives a configuration field
ListedBits ==
    [high_current_output |-> <<0, 1>>, accelerometer |-> <<1, 1>>, paclink |-> <<2, 1>>,
     debounce |-> <<3, 2>>, expand_interface |-> <<5, 1>>, blanks |-> <<6, 2>>]

\* The bytes of the record the configuration field takes
ConfigurationBytes ==
    {i \in 1..UltimarcStructSize :
        /\ ConfigurationOffset < i
        /\ i <= ConfigurationOffset
                   + UltimarcStruct[IndexOf(UltimarcStruct, "configuration")].type.size}

\* The value of a configuration field in the record: its bits of the first
\* configuration byte
ConfigurationBits(name) ==
    LET byte == data[ConfigurationOffset + 1]
    IN (byte \div (2 ^ ListedBits[name][1])) % (2 ^ ListedBits[name][2])

\* Every configuration field assigned holds, at the listed bits, the value
\* assigned (cut to its width).
ConfigurationBitsAsListed ==
    (op = "UltimarcStruct" /\ setarg.field \in DOMAIN ListedBits) =>
        ConfigurationBits(setarg.field) = setarg.value % (2 ^ ListedBits[setarg.field][2])

\* C17: the configuration bit field of the record is exactly one byte, its
\* fields at bit 0 (high_current_output), bit 1 (accelerometer), bit 2
\* (paclink), bits 3-4 (debounce), bit 5 (expand_interface) and bits 6-7
\* (blanks).
C17_ConfigurationByte ==
    op = "UltimarcStruct" =>
        /\ Cardinality(ConfigurationBytes) = 1
        /\ ConfigurationBitsAsListed

\* The log entry of the first step of validate_config_base the file fails,
\* the steps being taken in the order parse, base schema, resource type;
\* <<>> when it passes them all.
FirstFailingStep ==
    IF ~config_file.json THEN <<"not valid JSON">>
    ELSE IF ~BaseSchemaOK(config_file) THEN <<"base schema">>
    ELSE IF config_file.rt \notin accepted THEN <<"resource type">>
    ELSE <<>>

\* C18: validate_config_base never raises; it returns the parsed document,
\* as parsed, exactly when the file is JSON, satisfies the base schema and
\* has a resourceType of the accepted set, and a failed result (None) in
\* every other case, the failure logged being that of the first failing
\* step in the order parse, base schema, resource type.
C18_BaseValidationOutcome ==
    (op = "validate_config_base" /\ pc = "done") =>
        /\ exc = "none"
        /\ logged = FirstFailingStep
        /\ result = <<IF FirstFailingStep = <<>> THEN PyDict(config_file) ELSE PyNone>>

\* The same outcome, for the calls made with base.schema in a search path
BaseValidationWithSchema ==
    (op = "validate_config_base" /\ BaseSchemaFile \in schemas) => C18_BaseValidationOutcome

\* C19: whatever the option and the devices, run attempts the operation
\* on every device of the list: a device on which it failed, by a failed
\* result or by an exception, does not keep it from the devices after it.
C19_EveryDeviceAttempted ==
    (pc = "run_done" /\ toolop # "no_option" /\ devs > 0) => attempted = 1..devs

\* C20: in run at most one handle is open at any moment, a driver
\* operation is only ever in progress on the handle that is open, and no
\* handle is open between two `with` blocks or once run is over, whether
\* the block was left by its end or by an exception.
C20_HandleScoped ==
    /\ Cardinality(held) <= 1
    /\ (toolop # "" /\ op # "") => held = {idx}
    /\ pc \in {"run_loop", "run_done"} => held = {}

\* C20 witness: with two devices, set_color raised ValueError on the first;
\* its handle was closed as the exception left run.
C20_Witness ==
    /\ pc = "run_done"
    /\ toolop = "set_color"
    /\ devs = 2
    /\ attempted = {1}
    /\ exc = "ValueError"
    /\ held = {}

\* The direct calls of the three functions that load a schema
SchemaOps == {"load_config_schema", "validate_config", "validate_config_base"}

\* C21: when the schema file asked for is in none of the search paths,
\* none of load_config_schema, validate_config and validate_config_base
\* raises: load_config_schema and validate_config_base return None and
\* validate_config returns False.
C21_MissingSchemaReturnsNone ==
    (op \in SchemaOps /\ pc = "done" /\ schema_arg \notin schemas) =>
        /\ exc = "none"
        /\ result = <<IF op = "validate_config" THEN PyFalse ELSE PyNone>>

\* C22: every call of write returns, whatever data_size >= 0 and
\* msg_size >= 0 it is given (msg_size 0 included) and whether its
\* transfers succeed or fail: once entered, write is eventually done.
C22_WriteTerminates == (pc = "write_enter") ~> (pc = "done")

\* The same, for the calls made with a message size of at least 1
WriteTerminatesPositive ==
    (pc = "write_enter" /\ wargs.msg_size.n >= 1) ~> (pc = "done")

\* C23: the bytes write hands to a control transfer, from the start offset
\* of its pointer over the length it passes, never reach beyond the end of
\* the 5-byte chunk buffer, with a zero report id as with a non-zero one.
C23_TransferWithinBuffer ==
    op = "write" =>
        \A i \in 1..Len(transfers) :
            transfers[i].start + transfers[i].size <= PayloadSize

\* The same, for the calls made with a non-zero report id
TransferWithinBufferWithReportId ==
    (op = "write" /\ Truthy(wargs.report_id)) =>
        \A i \in 1..Len(transfers) :
            transfers[i].start + transfers[i].size <= PayloadSize

\* The data bytes one chunk of a write carries: the bytes memmove copied
\* behind the report id byte of the chunk buffer, as they leave in transfer t
ChunkData(t, msg_size) ==
    [k \in 1..ChunkLen(msg_size) |-> t.bytes[k + 1 - t.start]]

\* The data bytes of transfers 1..n of a write, concatenated in order
RECURSIVE Carried(_, _, _)
Carried(log, n, msg_size) ==
    IF n = 0 THEN <<>>
    ELSE Carried(log, n - 1, msg_size) \o ChunkData(log[n], msg_size)

\* C24: when every transfer succeeds, the data bytes the chunks of one
\* write carry, concatenated in order, are the caller's bytes
\* 0..data_size-1 exactly, none skipped, none sent twice, and none read at
\* or beyond offset data_size, for every msg_size >= 1.
C24_ChunksCarryPayload ==
    (op = "write" /\ pc = "done" /\ exc = "none" /\ wargs.msg_size.n >= 1 /\ AllOk) =>
        /\ Carried(transfers, Len(transfers), wargs.msg_size.n) = wargs.data.b
        /\ \A i \in 1..Len(transfers) :
               transfers[i].offset + ChunkLen(wargs.msg_size.n) <= wargs.data_size.n

\* The same, for the calls where msg_size is at most 4 and divides data_size
ChunksCarryPayloadWhenAligned ==
    ( /\ op = "write" /\ pc = "done" /\ exc = "none" /\ AllOk
      /\ wargs.msg_size.n \in 1..ChunkDataMax
      /\ wargs.data_size.n % wargs.msg_size.n = 0 ) =>
        /\ Carried(transfers, Len(transfers), wargs.msg_size.n) = wargs.data.b
        /\ \A i \in 1..Len(transfers) :
               transfers[i].offset + ChunkLen(wargs.msg_size.n) <= wargs.data_size.n

\* What the tool is to report for device i after get_color returned ret:
\* the colour, unless ret is the absent result
ColorReport(i, ret) ==
    IF ret = AbsentColor THEN <<>> ELSE <<[msg |-> "Color", dev |-> i, rgb |-> ret]>>

\* C25: with the get-colour option, run reports the colour of every device
\* whose get_color returned one, for all r, g, b in 0..255 and r = 0
\* included, and reports nothing only for a device whose get_color
\* returned the absent result.
C25_EveryColorReported ==
    [][(pc = "done" /\ toolop = "get_color" /\ pc' = "run_loop") =>
           tool_log' = tool_log \o ColorReport(idx, result)]_vars

\* The same, for the colours whose red channel is not 0
NonZeroRedReported ==
    [][(pc = "done" /\ toolop = "get_color" /\ pc' = "run_loop"
          /\ result # AbsentColor /\ result[1].n # 0) =>
           tool_log' = tool_log \o ColorReport(idx, result)]_vars

\* C26: for every --set-color argument the command-line check accepts, run
\* calls set_color on each device with three values the validation of
\* set_color accepts: an accepted request never ends in the driver's
\* invalid-argument error.
C26_AcceptedColorIsValid ==
    (toolop = "set_color" /\ op = "set_color") =>
        /\ \A i \in 1..3 : ColorArgOK(colors[i])
        /\ exc # "ValueError"

\* What does hold: the argument of every set_color call of run was
\* accepted by the check, and the three values given are its groups.
SetColorCallsFollowCheck ==
    (toolop = "set_color" /\ op = "set_color") =>
        /\ RGB_STRING_REGEX(set_color_arg).matched
        /\ colors = SetColorGroups(set_color_arg)
        /\ \A i \in 1..3 : colors[i].t = "str"
====
